---- MODULE Spec2Model ----
(***************************************************************************)
(* Model of the now-playing service: the DeezerMusicMonitor class (native  *)
(* media-session monitor), the external-process adapters (playerctl,       *)
(* osascript) and the Windows fallback of src/src/index.ts.                *)
(*                                                                         *)
(* JavaScript values are represented as follows.                           *)
(*   - null / an absent object is the empty tuple <<>>, a present object x *)
(*     is the one-element tuple <<x>>;                                     *)
(*   - an absent (undefined) string field is the value Undefined;          *)
(*   - a text that is parsed is a sequence of one-character strings.       *)
(***************************************************************************)
EXTENDS Integers, Sequences, FiniteSets, TLC

(* ---------------------------------------------------------------- bounds *)
MaxRequests == 3
MaxSessions == 1
MaxStatus == 3
MaxCliLen == 7
MaxTitleLen == 9
MaxWinLen == 5

(* ------------------------------------------------------- JavaScript values *)
Undefined == "<undefined>"
None == <<>>
Some(x) == <<x>>
Truthy(s) == s # Undefined /\ s # ""
OrEmpty(s) == IF Truthy(s) THEN s ELSE ""

(* --------------------------------------------------- the platform's sessions *)
\* The media fields a session can carry (absent or empty artist and title,
\* an album under the name album, albumTitle, both or neither).
MediaProps ==
  { [artist |-> Undefined, title |-> Undefined, album |-> Undefined, albumTitle |-> Undefined],
    [artist |-> "A", title |-> "", album |-> Undefined, albumTitle |-> Undefined],
    [artist |-> "A", title |-> "T", album |-> Undefined, albumTitle |-> Undefined],
    [artist |-> "A", title |-> "T", album |-> Undefined, albumTitle |-> "M"],
    [artist |-> "A", title |-> "T", album |-> "M", albumTitle |-> "M"],
    [artist |-> "B", title |-> "T", album |-> "M", albumTitle |-> "M"] }

\* The direct artist/title/album fields of a session; NoDirect has none.
NoDirect == [artist |-> Undefined, title |-> Undefined, album |-> Undefined]

DirectProps ==
  { NoDirect,
    [artist |-> "X", title |-> Undefined, album |-> Undefined],
    [artist |-> "", title |-> "Y", album |-> "Z"] }

\* A timeline has a duration: none yet (0) or that of a track.
Durations == {0, 180}
Timelines == {None} \cup { Some([duration |-> d]) : d \in Durations }
Playbacks == {None} \cup { Some([playbackStatus |-> s]) : s \in 0..MaxStatus }

\* The number of optional parts (media, direct fields, timeline, playback) a
\* session carries. The sessions explored carry at most two of the four.
Parts(s) ==
  (IF s.media # None THEN 1 ELSE 0)
  + (IF <<s.artist, s.title, s.album>> # <<Undefined, Undefined, Undefined>> THEN 1 ELSE 0)
  + (IF s.timeline # None THEN 1 ELSE 0)
  + (IF s.playback # None THEN 1 ELSE 0)

Session ==
  { s \in { [media |-> m, artist |-> d.artist, title |-> d.title, album |-> d.album,
             timeline |-> tl, playback |-> pb] :
              m \in {None} \cup { Some(x) : x \in MediaProps },
              d \in DirectProps, tl \in Timelines, pb \in Playbacks } :
      Parts(s) <= 2 }

EmptySession ==
  [media |-> None, artist |-> Undefined, title |-> Undefined, album |-> Undefined,
   timeline |-> None, playback |-> None]

RECURSIVE Repeat(_, _)
Repeat(x, n) == IF n = 0 THEN <<>> ELSE <<x>> \o Repeat(x, n - 1)

\* The session lists the platform can report: the active session first,
\* followed by older sessions.
SessionLists ==
  {<<>>} \cup { <<s>> \o Repeat(EmptySession, n) : s \in Session, n \in 0..(MaxSessions - 1) }

VARIABLES
  sessions,       \* monitor.sessions, the platform's session list
  currentMusic,   \* DeezerMusicMonitor.currentMusic
  isInitialized,  \* DeezerMusicMonitor.isInitialized
  last,           \* what the last monitor operation did
  prevStart,      \* see StartOutcome
  same,           \* see SameSnapshot
  proc,           \* the external command of an adapter and its promise
  stdout,         \* what that command printed
  listening,      \* the server's listen callback has run
  deezerMonitor,  \* the server's shared monitor: "null" or "monitor"
  created,        \* the number of DeezerMusicMonitor instances constructed
  req,            \* the server's getWindowsMusic() call in progress
  musicMonitor,   \* the monitor of startDeezerMonitoring(): "null" or "monitor"
  exit,           \* how the process has ended: "none" while it runs
  osPlatform,     \* os.platform() as the listen callback has read it
  credentials,    \* SPOTIFY_CLIENT_ID / SPOTIFY_CLIENT_SECRET, once used
  spotifyToken,   \* the server's spotifyToken: "null" or "token"
  now,            \* the GET /now-playing-data request in progress
  tokenRequests,  \* the number of token requests issued (counted up to 2)
  calls           \* the getSpotifyToken() calls of overlapping requests

monitorVars == <<sessions, currentMusic, isInitialized, last, prevStart, same>>
procVars == <<proc, stdout>>
processVars == <<musicMonitor, exit, osPlatform, credentials>>
nowVars == <<spotifyToken, now, tokenRequests, calls>>
serverVars == <<listening, deezerMonitor, created, req, processVars, nowVars>>
vars == <<sessions, currentMusic, isInitialized, last, prevStart, same, proc, stdout,
          listening, deezerMonitor, created, req, musicMonitor, exit, osPlatform,
          credentials, spotifyToken, now, tokenRequests, calls>>

(* ------------------------------------------------ DeezerMusicMonitor helpers *)

\* logMusicChange(action, musicInfo): one notification. The track's lines are
\* printed (detailed) only for a track with a non-empty artist and title.
LogMusicChange(action, musicInfo) ==
  [action |-> action, music |-> musicInfo,
   detailed |-> musicInfo # None /\ Truthy(musicInfo[1].artist) /\ Truthy(musicInfo[1].title)]

\* hasMusicChanged that compares artist and title only.
HasMusicChangedNoAlbum(cur, newMusic) ==
  IF cur = None THEN TRUE
  ELSE \/ cur[1].artist # newMusic.artist
       \/ cur[1].title # newMusic.title

\* hasMusicChanged(newMusic), with this.currentMusic passed as cur.
HasMusicChanged(cur, newMusic) ==
  IF cur = None THEN TRUE
  ELSE \/ cur[1].artist # newMusic.artist
       \/ cur[1].title # newMusic.title
       \/ cur[1].album # newMusic.album

\* handlePlaybackStatus whose Paused case clears the track as Stopped does.
HandlePlaybackStatusPausedClears(cur, status) ==
  CASE status = 0 -> [music |-> None, notes |-> <<LogMusicChange("Musica parou", None)>>]
    [] status = 1 -> [music |-> cur, notes |-> <<LogMusicChange("Musica tocando", cur)>>]
    [] status = 2 -> [music |-> None, notes |-> <<LogMusicChange("Musica pausada", cur)>>]
    [] OTHER -> [music |-> cur, notes |-> <<>>]

\* handlePlaybackStatus(status): the new currentMusic and the notifications.
HandlePlaybackStatus(cur, status) ==
  CASE status = 0 -> [music |-> None, notes |-> <<LogMusicChange("Musica parou", None)>>]
    [] status = 1 -> [music |-> cur, notes |-> <<LogMusicChange("Musica tocando", cur)>>]
    [] status = 2 -> [music |-> cur, notes |-> <<LogMusicChange("Musica pausada", cur)>>]
    [] OTHER -> [music |-> cur, notes |-> <<>>]

\* The MusicInfo that extractMusicInfo derives from a session (its first two
\* branches); None when neither branch applies.
DerivedMusicInfo(session) ==
  IF session.media # None
    THEN Some([artist |-> OrEmpty(session.media[1].artist),
               title |-> OrEmpty(session.media[1].title),
               album |-> OrEmpty(session.media[1].album)])
  ELSE IF Truthy(session.artist) \/ Truthy(session.title)
    THEN Some([artist |-> OrEmpty(session.artist),
               title |-> OrEmpty(session.title),
               album |-> OrEmpty(session.album)])
  ELSE None

\* The third branch of extractMusicInfo: a timeline with a positive duration
\* and a playback field hands the status to handlePlaybackStatus.
PlaybackBranch(session) ==
  /\ session.media = None
  /\ ~(Truthy(session.artist) \/ Truthy(session.title))
  /\ session.timeline # None
  /\ session.timeline[1].duration > 0
  /\ session.playback # None

\* The effect of a handler on the monitor: the new currentMusic, the
\* notifications, the hasMusicChanged calls and the handlePlaybackStatus calls.
NoEffect(cur) == [music |-> cur, notes |-> <<>>, hmc |-> <<>>, hps |-> <<>>]

\* extractMusicInfo(session)
ExtractMusicInfo(cur, session) ==
  LET musicInfo == DerivedMusicInfo(session)
      pb == IF PlaybackBranch(session)
              THEN HandlePlaybackStatus(cur, session.playback[1].playbackStatus)
              ELSE [music |-> cur, notes |-> <<>>]
      hps == IF PlaybackBranch(session)
               THEN <<[status |-> session.playback[1].playbackStatus, pre |-> cur]>>
               ELSE <<>>
  IN IF musicInfo # None
       THEN LET changed == HasMusicChanged(pb.music, musicInfo[1])
                call == <<[prev |-> pb.music, cand |-> musicInfo[1], result |-> changed]>>
            IN IF changed
                 THEN [music |-> musicInfo,
                       notes |-> pb.notes \o <<LogMusicChange("Nova musica detectada", musicInfo)>>,
                       hmc |-> call, hps |-> hps]
                 ELSE [music |-> pb.music, notes |-> pb.notes, hmc |-> call, hps |-> hps]
       ELSE [music |-> pb.music, notes |-> pb.notes, hmc |-> <<>>, hps |-> hps]

\* checkCurrentMusic(): the first session, if any, is the active one.
CheckCurrentMusic(cur, ss) ==
  IF Len(ss) > 0 THEN ExtractMusicInfo(cur, ss[1]) ELSE NoEffect(cur)

\* getCurrentMusic() that forgets the stored track when there is no session.
RefreshCurrentMusicClears(cur, ss) ==
  IF Len(ss) = 0 THEN [music |-> None, notes |-> <<>>, hmc |-> <<>>, hps |-> <<>>]
  ELSE IF ss[1].media # None
    THEN LET musicInfo == [artist |-> OrEmpty(ss[1].media[1].artist),
                           title |-> OrEmpty(ss[1].media[1].title),
                           album |-> OrEmpty(ss[1].media[1].albumTitle)]
             changed == HasMusicChanged(cur, musicInfo)
             call == <<[prev |-> cur, cand |-> musicInfo, result |-> changed]>>
         IN [music |-> IF changed THEN Some(musicInfo) ELSE cur,
             notes |-> <<>>, hmc |-> call, hps |-> <<>>]
    ELSE [music |-> cur, notes |-> <<>>, hmc |-> <<>>, hps |-> <<>>]

\* The body of getCurrentMusic() after the implicit start().
RefreshCurrentMusic(cur, ss) ==
  IF Len(ss) > 0 /\ ss[1].media # None
    THEN LET musicInfo == [artist |-> OrEmpty(ss[1].media[1].artist),
                           title |-> OrEmpty(ss[1].media[1].title),
                           album |-> OrEmpty(ss[1].media[1].albumTitle)]
             changed == HasMusicChanged(cur, musicInfo)
             call == <<[prev |-> cur, cand |-> musicInfo, result |-> changed]>>
         IN [music |-> IF changed THEN Some(musicInfo) ELSE cur,
             notes |-> <<>>, hmc |-> call, hps |-> <<>>]
    ELSE NoEffect(cur)

\* getCurrentSession() after the implicit start().
FirstSession(ss) == IF Len(ss) > 0 THEN Some(ss[1]) ELSE None

\* isMusicPlaying() without its timeline test.
PlayingDecisionMediaOnly(s) ==
  IF s = None THEN FALSE
  ELSE s[1].media # None /\ Truthy(s[1].media[1].title) /\ Truthy(s[1].media[1].artist)

\* The decision of isMusicPlaying() on the session getCurrentSession() returned.
PlayingDecision(s) ==
  IF s = None THEN FALSE
  ELSE IF s[1].media # None /\ Truthy(s[1].media[1].title) /\ Truthy(s[1].media[1].artist)
    THEN TRUE
  ELSE IF s[1].timeline # None /\ s[1].timeline[1].duration > 0
    THEN TRUE
  ELSE FALSE

(* ------------------------------------------------------ start() and stop() *)

\* start() without its isInitialized guard: it subscribes again.
StartEffectNoGuard(initialized, ok) ==
  [init |-> initialized \/ ok, inits |-> 1, subscribed |-> ok, threw |-> FALSE]

\* start() that sets isInitialized before it calls _initialize().
StartEffectFlagFirst(initialized, ok) ==
  IF initialized
    THEN [init |-> TRUE, inits |-> 0, subscribed |-> FALSE, threw |-> FALSE]
    ELSE [init |-> TRUE, inits |-> 1, subscribed |-> ok, threw |-> FALSE]

\* start() on a monitor whose isInitialized is `initialized`, when the native
\* _initialize() succeeds (ok) or throws: the new isInitialized, the number of
\* _initialize() calls made, whether the subscription was made and whether an
\* exception left start() (the catch block keeps the one of _initialize()).
StartEffect(initialized, ok) ==
  IF initialized
    THEN [init |-> TRUE, inits |-> 0, subscribed |-> FALSE, threw |-> FALSE]
    ELSE [init |-> ok, inits |-> 1, subscribed |-> ok, threw |-> FALSE]

\* stop() without its isInitialized guard: it always calls destroy().
StopEffectNoGuard(initialized, ok) ==
  [init |-> initialized /\ ~ok, destroys |-> 1, threw |-> ~ok]

\* stop() when destroy() succeeds (ok) or throws: destroy() is called only on
\* an initialized monitor, and its exception leaves stop() before the reset.
StopEffect(initialized, ok) ==
  IF initialized
    THEN [init |-> ~ok, destroys |-> 1, threw |-> ~ok]
    ELSE [init |-> FALSE, destroys |-> 0, threw |-> FALSE]

\* What the last operation did (a record of the calls it made and of what it
\* returned), kept for the properties below.
NoCall == [op |-> "none", preInit |-> FALSE, inits |-> 0, subscribed |-> FALSE,
           destroys |-> 0, threw |-> FALSE,
           retMusic |-> None, retSession |-> None, retBool |-> FALSE,
           notes |-> <<>>, hmc |-> <<>>, hps |-> <<>>]

Called(op, st, eff) ==
  [NoCall EXCEPT !.op = op, !.preInit = isInitialized, !.inits = st.inits,
                 !.subscribed = st.subscribed, !.threw = st.threw,
                 !.notes = eff.notes, !.hmc = eff.hmc, !.hps = eff.hps]

\* How the operation recorded in l went if it was a start(): "noop" on an
\* initialized monitor, else "ok" or "fail" with the native initialization;
\* "none" for any other operation. After a start(), prevStart keeps it for the
\* operation that came right before that start().
StartOutcome(l) ==
  IF l.op # "start" THEN "none"
  ELSE IF l.preInit THEN "noop"
  ELSE IF l.subscribed THEN "ok" ELSE "fail"

\* The outcomes of the native initialization a call can meet: it is consulted
\* only by an uninitialized monitor.
InitOutcomes == IF isInitialized THEN {TRUE} ELSE BOOLEAN

\* The outcomes of the native destroy(): it is called only by an initialized
\* monitor, and returns (TRUE) or throws (FALSE).
DestroyOutcomes == IF isInitialized THEN BOOLEAN ELSE {TRUE}

\* start()
Start ==
  \E ok \in InitOutcomes :
    LET st == StartEffect(isInitialized, ok) IN
    /\ isInitialized' = st.init
    /\ UNCHANGED sessions
    /\ UNCHANGED currentMusic
    /\ last' = Called("start", st, NoEffect(currentMusic))
    /\ prevStart' = StartOutcome(last)

\* stop()
Stop ==
  \E ok \in DestroyOutcomes :
    LET sp == StopEffect(isInitialized, ok) IN
    /\ isInitialized' = sp.init
    /\ UNCHANGED <<sessions, currentMusic>>
    /\ last' = [NoCall EXCEPT !.op = "stop", !.preInit = isInitialized,
                              !.destroys = sp.destroys, !.threw = sp.threw]
    /\ prevStart' = "none"

\* getCurrentMusic()
GetCurrentMusic ==
  \E ok \in InitOutcomes :
    LET st == StartEffect(isInitialized, ok)
        eff == RefreshCurrentMusic(currentMusic, sessions)
    IN /\ isInitialized' = st.init
       /\ UNCHANGED sessions
       /\ currentMusic' = eff.music
       /\ last' = [Called("getCurrentMusic", st, eff) EXCEPT !.retMusic = eff.music]
       /\ prevStart' = "none"

\* getCurrentSession()
GetCurrentSession ==
  \E ok \in InitOutcomes :
    LET st == StartEffect(isInitialized, ok) IN
    /\ isInitialized' = st.init
    /\ UNCHANGED sessions
    /\ UNCHANGED currentMusic
    /\ last' = [Called("getCurrentSession", st, NoEffect(currentMusic))
                  EXCEPT !.retSession = FirstSession(sessions)]
    /\ prevStart' = "none"

\* isMusicPlaying()
IsMusicPlaying ==
  \E ok \in InitOutcomes :
    LET st == StartEffect(isInitialized, ok) IN
    /\ isInitialized' = st.init
    /\ UNCHANGED sessions
    /\ UNCHANGED currentMusic
    /\ last' = [Called("isMusicPlaying", st, NoEffect(currentMusic))
                  EXCEPT !.retBool = PlayingDecision(FirstSession(sessions))]
    /\ prevStart' = "none"

\* The 'current-session-changed' listener: the platform reports the session
\* list ss and the listener runs checkCurrentMusic(). Events are delivered
\* while the native subscription is in place.
SessionChangedIn(lists) ==
  /\ isInitialized
  /\ \E ss \in lists :
       LET eff == CheckCurrentMusic(currentMusic, ss) IN
       /\ sessions' = ss
       /\ currentMusic' = eff.music
       /\ last' = [NoCall EXCEPT !.op = "event", !.preInit = isInitialized,
                                 !.notes = eff.notes, !.hmc = eff.hmc, !.hps = eff.hps]
  /\ UNCHANGED isInitialized
  /\ prevStart' = "none"

\* The session list of the subscribed monitor changes without a
\* 'current-session-changed' event (the monitor reads monitor.sessions afresh
\* at each use).
PlatformUpdateIn(lists) ==
  /\ isInitialized
  /\ \E ss \in lists : sessions' = ss /\ ss # sessions
  /\ UNCHANGED <<currentMusic, isInitialized>>
  /\ last' = [NoCall EXCEPT !.op = "platform", !.preInit = isInitialized]
  /\ prevStart' = "none"

SessionChanged == SessionChangedIn(SessionLists)
PlatformUpdate == PlatformUpdateIn(SessionLists)


(* ------------------------------------------------------ text of a command *)

\* A text is a sequence of characters. Texts(alphabet, n): all of length <= n.
Texts(alphabet, n) == UNION { [1..k -> alphabet] : k \in 0..n }

Separator == <<" ", "-", " ">>

RECURSIVE TrimStart(_)
TrimStart(s) == IF Len(s) > 0 /\ s[1] = " " THEN TrimStart(Tail(s)) ELSE s

RECURSIVE TrimEnd(_)
TrimEnd(s) ==
  IF Len(s) > 0 /\ s[Len(s)] = " " THEN TrimEnd(SubSeq(s, 1, Len(s) - 1)) ELSE s

\* String.prototype.trim()
Trim(s) == TrimEnd(TrimStart(s))

\* String.prototype.indexOf(sep), counted from 1; 0 when sep does not occur.
RECURSIVE IndexFrom(_, _, _)
IndexFrom(s, sep, i) ==
  IF i + Len(sep) - 1 > Len(s) THEN 0
  ELSE IF SubSeq(s, i, i + Len(sep) - 1) = sep THEN i
  ELSE IndexFrom(s, sep, i + 1)

IndexOf(s, sep) == IndexFrom(s, sep, 1)

\* String.prototype.split(sep): the text is cut at every occurrence of sep.
RECURSIVE Split(_, _)
Split(s, sep) ==
  LET i == IndexOf(s, sep)
  IN IF i = 0 THEN <<s>>
     ELSE <<SubSeq(s, 1, i - 1)>> \o Split(SubSeq(s, i + Len(sep), Len(s)), sep)

\* title.replace(/-$/, ""): one hyphen at the end of the text is removed.
StripTrailingHyphen(s) ==
  IF Len(s) > 0 /\ s[Len(s)] = "-" THEN SubSeq(s, 1, Len(s) - 1) ELSE s

\* const [artist, title] = parts: the first two parts, None when missing.
Part(parts, i) == IF Len(parts) >= i THEN Some(parts[i]) ELSE None

\* Truthiness of a part: present and not the empty text.
NonEmptyPart(p) == p # None /\ Len(p[1]) > 0

(* -------------------------------------------------- external-process adapters *)

\* The settlement of an adapter's promise.
Resolved(v) == [state |-> "resolved", value |-> v, reason |-> ""]
Rejected(r) == [state |-> "rejected", value |-> None, reason |-> r]
Pending == [state |-> "pending", value |-> None, reason |-> ""]

\* A MusicInfo without album, as the adapters build it.
Track(artist, title) == [artist |-> artist, title |-> title, album |-> Undefined]

\* The exec callback of getSpotifyMusicWindows.
GetSpotifyMusicWindows(error, out) ==
  IF error THEN Resolved(None)
  ELSE LET output == Trim(out) IN
       IF Len(output) = 0 THEN Resolved(None)
       ELSE LET parts == Split(output, Separator)
                artist == Part(parts, 1)
                title == Part(parts, 2)
            IN IF NonEmptyPart(artist) /\ NonEmptyPart(title)
                 THEN Resolved(Some(Track(Trim(artist[1]), Trim(title[1]))))
                 ELSE Resolved(None)

\* The exec callback of getLinuxMusic.
GetLinuxMusic(error, out) ==
  IF error THEN Rejected("An error occurred")
  ELSE LET parts == Split(Trim(out), Separator)
           artist == Part(parts, 1)
           title == Part(parts, 2)
       IN IF NonEmptyPart(artist) /\ NonEmptyPart(title)
            THEN LET cleanArtist == Trim(Split(artist[1], <<",">>)[1])
                     cleanTitle == Trim(StripTrailingHyphen(title[1]))
                 IN Resolved(Some(Track(cleanArtist, cleanTitle)))
            ELSE Rejected("Unable to parse song information")

\* getMacOSMusic reading the title as ARTIST - TITLE, as the playerctl
\* adapters read their output.
GetMacOSMusicArtistFirst(error, out) ==
  IF error THEN Rejected("An error occurred")
  ELSE LET parts == Split(Trim(out), Separator) IN
       IF Len(parts) >= 2
         THEN Resolved(Some(Track(Trim(parts[1]), Trim(parts[2]))))
         ELSE Rejected("Unable to parse song information")

\* The exec callback of getMacOSMusic.
GetMacOSMusic(error, out) ==
  IF error THEN Rejected("An error occurred")
  ELSE LET parts == Split(Trim(out), Separator) IN
       IF Len(parts) >= 2
         THEN Resolved(Some(Track(Trim(parts[2]), Trim(parts[1]))))
         ELSE Rejected("Unable to parse song information")

\* No command: command is "none", then "running" from exec() on, "exited"
\* once it is over and its callback has run, "hung" if it never ends.
NoProc == [adapter |-> "none", command |-> "none", error |-> FALSE,
           promise |-> [state |-> "none", value |-> None, reason |-> ""]]

\* An adapter is called: its command is started by exec(command, callback),
\* which is given no options (no timeout), and its promise is pending.
Invoke(adapter) ==
  /\ proc.adapter = "none"
  /\ proc' = [adapter |-> adapter, command |-> "running", error |-> FALSE,
              promise |-> Pending]
  /\ UNCHANGED stdout

\* The exec callback that each adapter passes to exec.
Settle(adapter, error, out) ==
  CASE adapter = "linux" -> GetLinuxMusic(error, out)
    [] adapter = "windows" -> GetSpotifyMusicWindows(error, out)
    [] adapter = "macos" -> GetMacOSMusic(error, out)

\* The command of the pending adapter is over and its exec callback runs,
\* with an error or with the command's output, and settles the promise.
Callback(adapter, outputs) ==
  /\ proc.adapter = adapter
  /\ proc.command = "running"
  /\ proc.promise.state = "pending"
  /\ \/ /\ proc' = [proc EXCEPT !.command = "exited", !.error = TRUE,
                                 !.promise = Settle(adapter, TRUE, <<>>)]
        /\ stdout' = <<>>
     \/ \E out \in outputs :
          /\ proc' = [proc EXCEPT !.command = "exited",
                                  !.promise = Settle(adapter, FALSE, out)]
          /\ stdout' = out

CliAlphabet == {"a", ",", "-", " "}
TitleAlphabet == {"a", "-", " "}

\* new DeezerMusicMonitor() once more (instances are counted up to 2).
OneMore(n) == IF n < 2 THEN n + 1 ELSE n

\* No write of currentMusic and no "new track" notification yet.
NoWrites == [writes |-> 0, notes |-> 0]

\* axios.post to the token endpoint once more (requests are counted up to 2).
Issued(n) == IF n < 2 THEN n + 1 ELSE n

\* The requests that can overlap, none of which has called getSpotifyToken().
NoCalls == [i \in 1..MaxRequests |-> [pc |-> "idle", sawToken |-> FALSE, requested |-> FALSE]]

\* getNowPlaying() is not running.
NoNowPlaying == [pc |-> "idle", music |-> None, state |-> "none",
                 coverUrl |-> Undefined, status |-> 0, failed |-> "none"]

\* getWindowsMusic() is not running.
NoRequest == [pc |-> "idle", native |-> None, cliStarted |-> FALSE,
              state |-> "none", result |-> None]

\* A constructed, not yet started monitor; no command running; a server that
\* has not begun to listen.
Init ==
  /\ sessions = <<>>
  /\ currentMusic = None
  /\ isInitialized = FALSE
  /\ last = NoCall
  /\ prevStart = "none"
  /\ proc = NoProc
  /\ stdout = <<>>
  /\ same = NoWrites
  /\ listening = FALSE
  /\ deezerMonitor = "null"
  /\ created = 0
  /\ req = NoRequest
  /\ musicMonitor = "null"
  /\ exit = "none"
  /\ osPlatform = "unread"
  /\ credentials = "unread"
  /\ spotifyToken = "null"
  /\ now = NoNowPlaying
  /\ tokenRequests = 0
  /\ calls = NoCalls

\* The DeezerMusicMonitor on its own: its public operations and the platform.
Next ==
  \/ Start /\ UNCHANGED <<same, procVars, serverVars>>
  \/ Stop /\ UNCHANGED <<same, procVars, serverVars>>
  \/ GetCurrentMusic /\ UNCHANGED <<same, procVars, serverVars>>
  \/ GetCurrentSession /\ UNCHANGED <<same, procVars, serverVars>>
  \/ IsMusicPlaying /\ UNCHANGED <<same, procVars, serverVars>>
  \/ SessionChanged /\ UNCHANGED <<same, procVars, serverVars>>
  \/ PlatformUpdate /\ UNCHANGED <<same, procVars, serverVars>>

InvokeLinux == Invoke("linux") /\ UNCHANGED <<monitorVars, serverVars>>
InvokeSpotifyWindows == Invoke("windows") /\ UNCHANGED <<monitorVars, serverVars>>
InvokeMacOS == Invoke("macos") /\ UNCHANGED <<monitorVars, serverVars>>

LinuxCallback ==
  Callback("linux", Texts(CliAlphabet, MaxCliLen)) /\ UNCHANGED <<monitorVars, serverVars>>

SpotifyWindowsCallback ==
  Callback("windows", Texts(CliAlphabet, MaxCliLen))
  /\ UNCHANGED <<monitorVars, serverVars>>

MacOSCallback ==
  Callback("macos", Texts(TitleAlphabet, MaxTitleLen)) /\ UNCHANGED <<monitorVars, serverVars>>

Spec == Init /\ [][Next]_vars

\* The playerctl adapters, each called on its own.
NextCli == InvokeLinux \/ InvokeSpotifyWindows \/ LinuxCallback \/ SpotifyWindowsCallback
SpecCli == Init /\ [][NextCli]_vars

\* The browser-title adapter, called on its own.
NextMacOS == InvokeMacOS \/ MacOSCallback
SpecMacOS == Init /\ [][NextMacOS]_vars

(* ------------------------------------------- the server's Windows fallback *)

\* The app.listen callback on win32: the shared monitor is created and started.
Listen ==
  /\ ~listening
  /\ listening' = TRUE
  /\ osPlatform' = "win32"
  /\ deezerMonitor' = "monitor"
  /\ created' = OneMore(created)
  /\ Start
  /\ UNCHANGED <<same, procVars, req, musicMonitor, exit, credentials, nowVars>>

\* getDeezerMusic(): the shared monitor is created and started if there is
\* none (a constructor that throws is caught, and the result is null), then
\* asked with getCurrentMusic(). The result is currentMusic'.
GetDeezerMusic ==
  IF deezerMonitor = "null"
    THEN \E constructed \in BOOLEAN, ok1 \in BOOLEAN, ok2 \in BOOLEAN :
           IF ~constructed
             THEN UNCHANGED <<monitorVars, deezerMonitor, created>>
             ELSE LET st1 == StartEffect(isInitialized, ok1)
                      st2 == StartEffect(st1.init, ok2)
                      eff == RefreshCurrentMusic(currentMusic, sessions)
                  IN /\ deezerMonitor' = "monitor"
                     /\ created' = OneMore(created)
                     /\ isInitialized' = st2.init
                     /\ currentMusic' = eff.music
                     /\ last' = [NoCall EXCEPT !.op = "getCurrentMusic",
                                               !.preInit = st1.init,
                                               !.inits = st2.inits,
                                               !.subscribed = st2.subscribed,
                                               !.hmc = eff.hmc,
                                               !.retMusic = eff.music]
                     /\ UNCHANGED <<sessions, prevStart>>
    ELSE GetCurrentMusic /\ UNCHANGED <<deezerMonitor, created>>

\* getWindowsMusic never takes the native result.
ReturnsNativeNever(musicInfo) == FALSE

\* getWindowsMusic: `if (musicInfo) return musicInfo` after getDeezerMusic().
ReturnsNative(musicInfo) == musicInfo # None

\* getWindowsMusic() is called and runs up to its first await.
GetWindowsMusic ==
  /\ listening
  /\ req.pc = "idle"
  /\ GetDeezerMusic
  /\ req' = [NoRequest EXCEPT !.pc = "native", !.state = "running",
                              !.native = currentMusic']
  /\ UNCHANGED <<same, procVars, listening, processVars>>

WindowsMusicCall == GetWindowsMusic /\ UNCHANGED nowVars

\* getWindowsMusic() that calls getSpotifyMusicWindows() whatever the native
\* adapter returned.
WindowsMusicAfterNativeEager ==
  /\ req.pc = "native"
  /\ Invoke("windows")
  /\ req' = [req EXCEPT !.pc = "cli", !.cliStarted = TRUE]
  /\ UNCHANGED <<monitorVars, listening, deezerMonitor, created, processVars, nowVars>>

\* getWindowsMusic() resumes with the native result: it returns it, or calls
\* getSpotifyMusicWindows() and awaits it.
WindowsMusicAfterNative ==
  /\ req.pc = "native"
  /\ IF ReturnsNative(req.native)
       THEN /\ req' = [req EXCEPT !.pc = "done", !.state = "resolved", !.result = req.native]
            /\ UNCHANGED procVars
       ELSE /\ Invoke("windows")
            /\ req' = [req EXCEPT !.pc = "cli", !.cliStarted = TRUE]
  /\ UNCHANGED <<monitorVars, listening, deezerMonitor, created, processVars, nowVars>>

\* getWindowsMusic() resumes with the settled promise of the CLI adapter.
WindowsMusicAfterCli ==
  /\ req.pc = "cli"
  /\ proc.promise.state \in {"resolved", "rejected"}
  /\ req' = IF proc.promise.state = "rejected"
              THEN [req EXCEPT !.pc = "done", !.state = "rejected"]
              ELSE [req EXCEPT !.pc = "done", !.state = "resolved",
                               !.result = proc.promise.value]
  /\ UNCHANGED <<monitorVars, procVars, listening, deezerMonitor, created,
                 processVars, nowVars>>

\* The request is answered; the next one can come.
NextRequest ==
  /\ req.pc = "done"
  /\ req' = NoRequest
  /\ proc' = NoProc
  /\ stdout' = <<>>
  /\ UNCHANGED <<monitorVars, listening, deezerMonitor, created, processVars, nowVars>>

\* A continuation of getWindowsMusic() is ready to run (its awaited promise
\* is settled): no event is delivered before it has run.
MicrotaskPending ==
  \/ req.pc = "native"
  \/ req.pc = "cli" /\ proc.promise.state \in {"resolved", "rejected"}

\* The sessions and the command outputs explored with the fallback.
WinSessionLists ==
  {<<>>} \cup { <<s>> : s \in { x \in Session :
                                  Parts(x) <= 1 /\ x.timeline = None /\ x.playback = None } }
WinOutputs == Texts(TitleAlphabet, MaxWinLen)

WinSessionChanged ==
  ~MicrotaskPending /\ SessionChangedIn(WinSessionLists) /\ UNCHANGED <<same, procVars, serverVars>>

WinPlatformUpdate ==
  ~MicrotaskPending /\ PlatformUpdateIn(WinSessionLists) /\ UNCHANGED <<same, procVars, serverVars>>

WinSpotifyCallback ==
  Callback("windows", WinOutputs) /\ UNCHANGED <<monitorVars, serverVars>>

NextWin ==
  \/ Listen
  \/ WindowsMusicCall
  \/ WindowsMusicAfterNative
  \/ WinSpotifyCallback
  \/ WindowsMusicAfterCli
  \/ NextRequest
  \/ WinSessionChanged
  \/ WinPlatformUpdate

SpecWin == Init /\ [][NextWin]_vars

(* ------------------------------------------ getNowPlaying and its handler *)

\* The listen callback on a platform other than win32: no monitor is made.
ListenOther ==
  /\ ~listening
  /\ listening' = TRUE
  /\ \E p \in {"darwin", "linux"} : osPlatform' = p
  /\ UNCHANGED <<monitorVars, procVars, deezerMonitor, created, req, musicMonitor, exit,
                 credentials, nowVars>>

\* getSpotifyToken() up to its return, throw or await: the stored token is
\* returned ("cached"), missing credentials throw ("throw"), else the token
\* request is issued ("request").
GetSpotifyToken(token, creds) ==
  IF token # "null" THEN "cached"
  ELSE IF creds = "unset" THEN "throw"
  ELSE "request"

\* The credentials of the environment: fixed for the process, read when
\* getSpotifyToken() first tests them.
CredentialsRead == IF credentials = "unread" THEN {"set", "unset"} ELSE {credentials}

\* The answers of the GET /now-playing-data handler.
Respond200(music, coverUrl) ==
  [pc |-> "done", music |-> music, state |-> "resolved", coverUrl |-> coverUrl,
   status |-> 200, failed |-> "none"]
Respond500(music, why) ==
  [pc |-> "done", music |-> music, state |-> "rejected", coverUrl |-> Undefined,
   status |-> 500, failed |-> why]

\* The handler calls getNowPlaying(), which calls the adapter of the platform
\* and awaits it.
NowPlayingCall ==
  /\ listening
  /\ now.pc = "idle"
  /\ req.pc = "idle"
  /\ proc.adapter = "none"
  /\ now' = [NoNowPlaying EXCEPT !.pc = "music", !.state = "running"]
  /\ CASE osPlatform = "darwin" ->
            Invoke("macos") /\ UNCHANGED <<monitorVars, listening, deezerMonitor, created, req>>
       [] osPlatform = "win32" -> GetWindowsMusic /\ UNCHANGED <<same, listening>>
       [] OTHER ->
            Invoke("linux") /\ UNCHANGED <<monitorVars, listening, deezerMonitor, created, req>>
  /\ UNCHANGED <<processVars, spotifyToken, tokenRequests, calls>>

\* The promise getNowPlaying() awaits for musicInfo, once settled.
SourceSettled ==
  IF osPlatform = "win32" THEN req.pc = "done"
  ELSE proc.promise.state \in {"resolved", "rejected"}

SourceResult ==
  IF osPlatform = "win32" THEN [state |-> req.state, value |-> req.result]
  ELSE [state |-> proc.promise.state, value |-> proc.promise.value]

\* getNowPlaying() resumes with musicInfo: a rejected adapter and a null
\* musicInfo end it with an exception; else it enters the try block and calls
\* getSpotifyToken(), whose exception the catch block turns into
\* "Error fetching data".
NowAfterMusic ==
  /\ now.pc = "music"
  /\ SourceSettled
  /\ \E creds \in CredentialsRead :
       LET r == SourceResult IN
       IF r.state = "rejected"
         THEN now' = Respond500(None, "adapter") /\ UNCHANGED <<credentials, tokenRequests>>
       ELSE IF r.value = None
         THEN now' = Respond500(None, "no music") /\ UNCHANGED <<credentials, tokenRequests>>
       ELSE CASE GetSpotifyToken(spotifyToken, creds) = "cached" ->
                   now' = [now EXCEPT !.pc = "search", !.music = r.value]
                   /\ UNCHANGED <<credentials, tokenRequests>>
              [] GetSpotifyToken(spotifyToken, creds) = "throw" ->
                   now' = Respond500(r.value, "credentials") /\ credentials' = creds
                   /\ UNCHANGED tokenRequests
              [] OTHER ->
                   now' = [now EXCEPT !.pc = "token", !.music = r.value]
                   /\ credentials' = creds
                   /\ tokenRequests' = Issued(tokenRequests)
  /\ UNCHANGED <<monitorVars, procVars, listening, deezerMonitor, created, req,
                 musicMonitor, exit, osPlatform, spotifyToken, calls>>

\* The token request is answered: the token is stored and the search request
\* is issued, or axios.post throws.
TokenResponse ==
  /\ now.pc = "token"
  /\ \E ok \in BOOLEAN :
       IF ok
         THEN spotifyToken' = "token" /\ now' = [now EXCEPT !.pc = "search"]
         ELSE now' = Respond500(now.music, "token") /\ UNCHANGED spotifyToken
  /\ UNCHANGED <<monitorVars, procVars, listening, deezerMonitor, created, req, processVars,
                 tokenRequests, calls>>

\* What the search request can give: an exception, no item, a best match with
\* a cover image, a best match whose album.images is empty.
SearchOutcomes == {"error", "empty", "cover", "no image"}

\* The search request is answered; images[0].url of an empty images array
\* throws a TypeError inside the try block.
SearchResponse ==
  /\ now.pc = "search"
  /\ \E r \in SearchOutcomes :
       now' = CASE r = "error" -> Respond500(now.music, "search")
                [] r = "empty" -> Respond200(now.music, "")
                [] r = "cover" -> Respond200(now.music, "url")
                [] OTHER -> Respond500(now.music, "image")
  /\ UNCHANGED <<monitorVars, procVars, listening, deezerMonitor, created, req, processVars,
                 spotifyToken, tokenRequests, calls>>

\* The response is sent; the next request can come.
NowResponded ==
  /\ now.pc = "done"
  /\ now' = NoNowPlaying
  /\ req' = NoRequest
  /\ proc' = NoProc
  /\ stdout' = <<>>
  /\ UNCHANGED <<monitorVars, listening, deezerMonitor, created, processVars, spotifyToken,
                 tokenRequests, calls>>

\* A continuation of getNowPlaying() or of getWindowsMusic() is ready to run.
NowMicrotaskPending == MicrotaskPending \/ (now.pc = "music" /\ SourceSettled)

\* The sessions and the command outputs explored with getNowPlaying().
NowSessionLists ==
  { <<>>,
    <<[EmptySession EXCEPT !.media = Some([artist |-> "A", title |-> "T", album |-> "M",
                                            albumTitle |-> "M"])]>> }
NowOutputs == { <<>>, <<"a">>, <<"a", " ", "-", " ", "a">> }

NowSessionChanged ==
  /\ ~NowMicrotaskPending
  /\ SessionChangedIn(NowSessionLists)
  /\ UNCHANGED <<same, procVars, serverVars>>

NowAdapterCallback ==
  /\ \E a \in {"linux", "windows", "macos"} : Callback(a, NowOutputs)
  /\ UNCHANGED <<monitorVars, serverVars>>

NextNow ==
  \/ Listen
  \/ ListenOther
  \/ NowPlayingCall
  \/ WindowsMusicAfterNative
  \/ WindowsMusicAfterCli
  \/ NowAdapterCallback
  \/ NowAfterMusic
  \/ TokenResponse
  \/ SearchResponse
  \/ NowResponded
  \/ NowSessionChanged

SpecNow == Init /\ [][NextNow]_vars

(* ------------------------------- repeated snapshots of the active session *)

\* The assignments to this.currentMusic that the operation recorded in l
\* made, and its "new track detected" notifications.
Writes(l) ==
  Cardinality({ i \in DOMAIN l.hmc : l.hmc[i].result })
  + Cardinality({ i \in DOMAIN l.hps : l.hps[i].status = 0 })

NewTrackNotes(l) ==
  Cardinality({ i \in DOMAIN l.notes : l.notes[i].action = "Nova musica detectada" })

\* The writes and the notifications counted (up to 2) since the session list
\* took its present value: an operation that meets the list unchanged adds
\* its own to the count, one that meets a new list starts the count afresh.
SameSnapshot(before, after, l) ==
  LET base == IF before = after THEN same ELSE NoWrites
      Upto2(n) == IF n > 2 THEN 2 ELSE n
  IN [writes |-> Upto2(base.writes + Writes(l)),
      notes |-> Upto2(base.notes + NewTrackNotes(l))]

\* The session lists explored: one session that carries a media field.
DupSessionLists ==
  {<<>>} \cup { <<[EmptySession EXCEPT !.media = Some(m)]>> : m \in MediaProps }

DupStart == Start /\ UNCHANGED <<same, procVars, serverVars>>

DupSessionChanged ==
  /\ SessionChangedIn(DupSessionLists)
  /\ same' = SameSnapshot(sessions, sessions', last')
  /\ UNCHANGED <<procVars, serverVars>>

DupGetCurrentMusic ==
  /\ GetCurrentMusic
  /\ same' = SameSnapshot(sessions, sessions', last')
  /\ UNCHANGED <<procVars, serverVars>>

DupPlatformUpdate ==
  /\ PlatformUpdateIn(DupSessionLists)
  /\ same' = NoWrites
  /\ UNCHANGED <<procVars, serverVars>>

\* The event listener and getCurrentMusic() of one monitor, interleaved.
NextDup == DupStart \/ DupSessionChanged \/ DupGetCurrentMusic \/ DupPlatformUpdate
SpecDup == Init /\ [][NextDup]_vars

(* ------------------------------------------------- termination signals *)

\* startDeezerMonitoring(): the program's monitor is made and started, and
\* the SIGINT and SIGTERM handlers are registered.
StartDeezerMonitoring ==
  /\ exit = "none"
  /\ musicMonitor = "null"
  /\ ~listening
  /\ musicMonitor' = "monitor"
  /\ created' = OneMore(created)
  /\ Start
  /\ UNCHANGED <<same, procVars, listening, deezerMonitor, req, exit, osPlatform,
                 credentials, nowVars>>

\* How the process ends in a signal handler whose stop() threw or returned:
\* an exception leaves the handler before process.exit(0) is reached.
ExitAfter(threw) == IF threw THEN "uncaught exception" ELSE "exit 0"

\* The SIGINT / SIGTERM handler of startDeezerMonitoring():
\* musicMonitor.stop(); process.exit(0).
MonitorSignal ==
  /\ exit = "none"
  /\ musicMonitor = "monitor"
  /\ Stop
  /\ exit' = ExitAfter(last'.threw)
  /\ UNCHANGED <<same, procVars, listening, deezerMonitor, created, req, musicMonitor,
                 osPlatform, credentials, nowVars>>

\* The SIGINT / SIGTERM handler of the server:
\* if (deezerMonitor) deezerMonitor.stop(); process.exit(0).
ServerSignal ==
  /\ exit = "none"
  /\ musicMonitor = "null"
  /\ IF deezerMonitor # "null"
       THEN Stop /\ exit' = ExitAfter(last'.threw)
       ELSE exit' = ExitAfter(FALSE)
            /\ UNCHANGED <<sessions, currentMusic, isInitialized, last, prevStart>>
  /\ UNCHANGED <<same, procVars, listening, deezerMonitor, created, req, musicMonitor,
                 osPlatform, credentials, nowVars>>

SigListen == exit = "none" /\ musicMonitor = "null" /\ Listen

SigSessionChanged ==
  /\ exit = "none"
  /\ SessionChangedIn(WinSessionLists)
  /\ UNCHANGED <<same, procVars, serverVars>>

\* A process that runs the monitoring program or the server until a signal.
NextSignal ==
  \/ StartDeezerMonitoring
  \/ SigListen
  \/ SigSessionChanged
  \/ MonitorSignal
  \/ ServerSignal

SpecSignal == Init /\ [][NextSignal]_vars

(* ------------------------------------------ a command that does not end *)

\* The command of the pending adapter turns out to be one that never ends
\* (a player that does not answer, a dialog that waits): no exec callback
\* will be called for it, and the code has set no timer that would end it.
CommandHangs ==
  /\ proc.command = "running"
  /\ proc' = [proc EXCEPT !.command = "hung"]
  /\ UNCHANGED <<stdout, monitorVars, serverVars>>

AdapterCallback ==
  /\ \E a \in {"linux", "windows", "macos"} : Callback(a, WinOutputs)
  /\ UNCHANGED <<monitorVars, serverVars>>

\* Each adapter called on its own, with a command that ends or does not. The
\* event loop runs the exec callback of a command that is over.
NextTimeout ==
  \/ InvokeLinux
  \/ InvokeSpotifyWindows
  \/ InvokeMacOS
  \/ AdapterCallback
  \/ CommandHangs

SpecTimeout == Init /\ [][NextTimeout]_vars /\ WF_vars(AdapterCallback)

(* ------------------------------------- the handlers that share the monitor *)

\* The GET /deezer-music handler: getDeezerMusic() runs to its end before the
\* handler's await, and the answer is sent after it.
DeezerMusicHandler ==
  /\ listening
  /\ ~MicrotaskPending
  /\ GetDeezerMusic
  /\ UNCHANGED <<same, procVars, listening, req, processVars, nowVars>>

\* The GET /current-session handler that makes a monitor of its own at each
\* request.
CurrentSessionHandlerNoCheck ==
  /\ listening
  /\ ~MicrotaskPending
  /\ \E ok \in BOOLEAN :
       /\ deezerMonitor' = "monitor"
       /\ created' = OneMore(created)
       /\ isInitialized' = ok
       /\ last' = [NoCall EXCEPT !.op = "isMusicPlaying", !.preInit = ok]
  /\ UNCHANGED <<sessions, currentMusic, prevStart, same, procVars, listening, req,
                 processVars, nowVars>>

\* The GET /current-session handler: the shared monitor is made and started
\* if there is none (a constructor that throws ends the handler in its catch
\* block), then asked with getCurrentSession() and isMusicPlaying(), each of
\* which starts a monitor that is not initialized. No await occurs in it.
CurrentSessionHandler ==
  /\ listening
  /\ ~MicrotaskPending
  /\ \E constructed \in BOOLEAN, ok1 \in BOOLEAN, ok2 \in BOOLEAN, ok3 \in BOOLEAN :
       IF deezerMonitor = "null" /\ ~constructed
         THEN UNCHANGED <<monitorVars, deezerMonitor, created>>
         ELSE LET init1 == IF deezerMonitor = "null"
                             THEN StartEffect(isInitialized, ok1).init
                             ELSE isInitialized
                  st2 == StartEffect(init1, ok2)
                  st3 == StartEffect(st2.init, ok3)
              IN /\ deezerMonitor' = "monitor"
                 /\ created' = IF deezerMonitor = "null" THEN OneMore(created) ELSE created
                 /\ isInitialized' = st3.init
                 /\ last' = [NoCall EXCEPT !.op = "isMusicPlaying",
                                           !.preInit = st2.init,
                                           !.inits = st3.inits,
                                           !.subscribed = st3.subscribed,
                                           !.retBool = PlayingDecision(FirstSession(sessions))]
                 /\ UNCHANGED <<sessions, currentMusic, prevStart, same>>
  /\ UNCHANGED <<procVars, listening, req, processVars, nowVars>>

\* The GET /now-playing-data handler on win32, up to the first await of
\* getWindowsMusic().
NowPlayingDataHandler == osPlatform = "win32" /\ ~MicrotaskPending /\ WindowsMusicCall

SrvSessionChanged ==
  /\ ~MicrotaskPending
  /\ SessionChangedIn(WinSessionLists)
  /\ UNCHANGED <<same, procVars, serverVars>>

SrvSpotifyCallback ==
  Callback("windows", NowOutputs) /\ UNCHANGED <<monitorVars, serverVars>>

\* The server: its listen callback, then its handlers in any order, a handler
\* running from one await to the next without interruption.
NextServer ==
  \/ Listen
  \/ ListenOther
  \/ DeezerMusicHandler
  \/ CurrentSessionHandler
  \/ NowPlayingDataHandler
  \/ WindowsMusicAfterNative
  \/ SrvSpotifyCallback
  \/ WindowsMusicAfterCli
  \/ NextRequest
  \/ SrvSessionChanged

SpecServer == Init /\ [][NextServer]_vars

(* ------------------------------------ getSpotifyToken() of overlapping requests *)

\* Request i, a getNowPlaying() call that has detected a track, enters its
\* try block and calls getSpotifyToken(), which runs up to its return, its
\* throw or the await of its token request. sawToken and requested record
\* whether a token was stored at the call and whether a request was issued.
TokenCall(i) ==
  /\ calls[i].pc = "idle"
  /\ \E creds \in CredentialsRead :
       LET outcome == GetSpotifyToken(spotifyToken, creds)
           this == [sawToken |-> spotifyToken # "null", requested |-> outcome = "request"]
       IN CASE outcome = "cached" ->
                 /\ calls' = [calls EXCEPT ![i] = [pc |-> "returned"] @@ this]
                 /\ UNCHANGED <<credentials, tokenRequests>>
            [] outcome = "throw" ->
                 /\ calls' = [calls EXCEPT ![i] = [pc |-> "thrown"] @@ this]
                 /\ credentials' = creds
                 /\ UNCHANGED tokenRequests
            [] OTHER ->
                 /\ calls' = [calls EXCEPT ![i] = [pc |-> "awaiting"] @@ this]
                 /\ credentials' = creds
                 /\ tokenRequests' = Issued(tokenRequests)
  /\ UNCHANGED <<monitorVars, procVars, listening, deezerMonitor, created, req, musicMonitor,
                 exit, osPlatform, spotifyToken, now>>

\* The token request of request i is answered: the token is stored and
\* returned, or axios.post throws.
TokenAnswer(i) ==
  /\ calls[i].pc = "awaiting"
  /\ \E ok \in BOOLEAN :
       IF ok
         THEN /\ spotifyToken' = "token"
              /\ calls' = [calls EXCEPT ![i].pc = "returned"]
         ELSE /\ calls' = [calls EXCEPT ![i].pc = "thrown"]
              /\ UNCHANGED spotifyToken
  /\ UNCHANGED <<monitorVars, procVars, listening, deezerMonitor, created, req, processVars,
                 now, tokenRequests>>

\* Request i is over; a later request takes its place.
TokenCallOver(i) ==
  /\ calls[i].pc \in {"returned", "thrown"}
  /\ calls' = [calls EXCEPT ![i] = NoCalls[i]]
  /\ UNCHANGED <<monitorVars, procVars, listening, deezerMonitor, created, req, processVars,
                 spotifyToken, now, tokenRequests>>

TokenCalls == \E i \in 1..MaxRequests : TokenCall(i)
TokenAnswers == \E i \in 1..MaxRequests : TokenAnswer(i)
TokenCallsOver == \E i \in 1..MaxRequests : TokenCallOver(i)

\* The getSpotifyToken() calls of requests that overlap in any way.
NextToken == TokenCalls \/ TokenAnswers \/ TokenCallsOver
SpecToken == Init /\ [][NextToken]_vars

(* ================================================================ claims *)

\* The active session: the first one of the platform's list.
HasSession == Len(sessions) > 0
Active == sessions[1]

(* ------------------------------------------------------------------- C1 *)

\* The parts of C1 that do not depend on the outcome of the native
\* initialization: no operation calls _initialize() on a monitor that is
\* already initialized, and a start() on an initialized monitor changes no
\* monitor state.
C1_Guarded ==
  /\ last'.inits > 0 => ~isInitialized
  /\ (last'.op = "start" /\ isInitialized) =>
        UNCHANGED <<sessions, currentMusic, isInitialized>>

\* C1 as stated: whatever the outcome of the native initialization, two
\* start() calls in succession on a monitor that was not initialized call
\* _initialize() exactly once (the first start() called it, so the second
\* calls it no more); no operation calls _initialize() on an initialized
\* monitor; start() on an initialized monitor changes no monitor state.
C1_StartTwiceSubscribesOnce ==
  [][ /\ C1_Guarded
      /\ (last'.op = "start" /\ prevStart' \in {"ok", "fail"}) => last'.inits = 0 ]_vars

\* C1 amended: two start() calls in succession on a monitor that was not
\* initialized call _initialize() exactly once when the first call's native
\* initialization succeeds; when it throws, isInitialized stays false and the
\* second start() calls _initialize() again. No operation calls _initialize()
\* on an initialized monitor; start() on an initialized monitor changes no
\* monitor state.
C1_StartTwiceAmended ==
  [][ /\ C1_Guarded
      /\ (last'.op = "start" /\ prevStart' = "ok") => last'.inits = 0
      /\ (last'.op = "start" /\ prevStart' = "fail") => last'.inits = 1 ]_vars

\* Two start() calls in succession, the first having subscribed.
C1_Witness == last.op = "start" /\ prevStart = "ok" /\ last.inits = 0 /\ isInitialized

(* ------------------------------------------------------------------- C2 *)

\* C2: after a session-changed event or a getCurrentMusic() call, if the
\* active session's snapshot carries playback status 0 (Stopped), then
\* currentMusic is absent.
C2_StoppedMeansNoMusic ==
  ( /\ last.op \in {"event", "getCurrentMusic"}
    /\ HasSession
    /\ Active.playback # None
    /\ Active.playback[1].playbackStatus = 0 )
  => currentMusic = None

(* ------------------------------------------------------------------- C3 *)

\* C3: when the last operation called handlePlaybackStatus(status) with
\* currentMusic = pre, then afterwards currentMusic is absent for status 0 and
\* equals pre for every other status; for status 1 a "playing" notification
\* was emitted whose track is pre.
C3_PlaybackTransition ==
  last.hps # <<>> =>
    LET p == last.hps[1] IN
    /\ p.status = 0 => currentMusic = None
    /\ p.status # 0 => currentMusic = p.pre
    /\ p.status = 1 =>
         \E i \in 1..Len(last.notes) :
           last.notes[i].action = "Musica tocando" /\ last.notes[i].music = p.pre

\* handlePlaybackStatus(0) ran on a monitor that held a track.
C3_Witness ==
  /\ last.hps # <<>>
  /\ last.hps[1].status = 0
  /\ last.hps[1].pre # None
  /\ currentMusic = None

(* ------------------------------------------------------------------- C4 *)

\* The album field the last operation read from the active session to build
\* the candidate it compared: media.album or the direct album in the event
\* listener, media.albumTitle in getCurrentMusic().
RawAlbum ==
  IF last.op = "getCurrentMusic" THEN Active.media[1].albumTitle
  ELSE IF Active.media # None THEN Active.media[1].album
  ELSE Active.album

\* C4: every hasMusicChanged(candidate) call of the last operation returned
\* true when the stored record was absent, false when stored record and
\* candidate had equal artist, title and album, and, for equal artist and
\* title, true exactly when the albums differ, a missing album of the session
\* counting as the empty string.
C4_ChangeDetector ==
  \A i \in 1..Len(last.hmc) :
    LET c == last.hmc[i]
        album == IF RawAlbum \in {Undefined, ""} THEN "" ELSE RawAlbum
    IN /\ c.prev = None => c.result
       /\ (c.prev # None /\ c.prev[1].artist = c.cand.artist
             /\ c.prev[1].title = c.cand.title /\ c.prev[1].album = c.cand.album)
            => ~c.result
       /\ (c.prev # None /\ c.prev[1].artist = c.cand.artist
             /\ c.prev[1].title = c.cand.title)
            => (c.result <=> c.prev[1].album # album)

\* A comparison of two records that differ in the album only.
C4_Witness ==
  /\ last.hmc # <<>>
  /\ last.hmc[1].prev # None
  /\ last.hmc[1].prev[1].artist = last.hmc[1].cand.artist
  /\ last.hmc[1].prev[1].title = last.hmc[1].cand.title
  /\ last.hmc[1].prev[1].album # last.hmc[1].cand.album
  /\ last.hmc[1].result

(* ------------------------------------------------------------------- C5 *)

\* The record the claim derives from a media field: its artist, title and
\* album, each replaced by the empty string when absent or empty.
FromMedia(m) ==
  [artist |-> IF m.artist \in {Undefined, ""} THEN "" ELSE m.artist,
   title |-> IF m.title \in {Undefined, ""} THEN "" ELSE m.title,
   album |-> IF m.album \in {Undefined, ""} THEN "" ELSE m.album]

\* The same for the direct fields of a session.
FromDirect(s) ==
  [artist |-> IF s.artist \in {Undefined, ""} THEN "" ELSE s.artist,
   title |-> IF s.title \in {Undefined, ""} THEN "" ELSE s.title,
   album |-> IF s.album \in {Undefined, ""} THEN "" ELSE s.album]

HasDirect(s) == s.artist \notin {Undefined, ""} \/ s.title \notin {Undefined, ""}

\* C5: one rule per snapshot, in priority order, for the operation that
\* normalized the active session last (the session-changed listener or
\* getCurrentMusic()): with a media field the candidate is
\* exactly FromMedia of it; a candidate is taken from the direct fields only
\* when there is no media field; a session with neither gives no candidate.
C5_NormalizeOneRule ==
  (last.op \in {"event", "getCurrentMusic"} /\ HasSession) =>
    /\ Active.media # None =>
         /\ Len(last.hmc) = 1
         /\ last.hmc[1].cand = FromMedia(Active.media[1])
    /\ (Active.media = None /\ last.hmc # <<>>) =>
         /\ HasDirect(Active)
         /\ last.hmc[1].cand = FromDirect(Active)
    /\ (Active.media = None /\ ~HasDirect(Active)) => last.hmc = <<>>

(* ------------------------------------------------------------------- C7 *)

\* C7: getCurrentMusic() returns null when the platform reports no active
\* session at the time of the call.
C7_NoSessionReturnsNull ==
  (last.op = "getCurrentMusic" /\ ~HasSession) => last.retMusic = None

(* ------------------------------------------------------------------ C10 *)

\* What C10 says isMusicPlaying() returns for the session list ss.
PlayingBySpec(ss) ==
  /\ Len(ss) > 0
  /\ \/ /\ ss[1].media # None
        /\ ss[1].media[1].title \notin {Undefined, ""}
        /\ ss[1].media[1].artist \notin {Undefined, ""}
     \/ /\ ss[1].timeline # None
        /\ ss[1].timeline[1].duration > 0

\* C10: isMusicPlaying() returns true exactly when the active session exists
\* and carries a media field with non-empty title and artist or a timeline
\* with a positive duration; it leaves currentMusic as it was.
C10_IsMusicPlaying ==
  [][ last'.op = "isMusicPlaying" =>
        /\ last'.retBool = PlayingBySpec(sessions')
        /\ currentMusic' = currentMusic ]_vars

\* isMusicPlaying() answered true for a session that has a timeline but no
\* media field, on a monitor that holds a track.
C10_Witness ==
  /\ last.op = "isMusicPlaying"
  /\ last.retBool
  /\ HasSession
  /\ Active.media = None
  /\ currentMusic # None

(* ------------------------------------------------------------- C8 and C9 *)

\* An adapter's command ran without error and its callback settled the promise.
Parsed(adapters) ==
  /\ proc.adapter \in adapters
  /\ proc.promise.state \in {"resolved", "rejected"}
  /\ ~proc.error

\* The trimmed output cut at its first separator: what precedes it and all
\* that follows it (None when there is no separator).
Output == Trim(stdout)
FirstPart == IF IndexOf(Output, Separator) = 0 THEN None
             ELSE Some(SubSeq(Output, 1, IndexOf(Output, Separator) - 1))
Remainder == IF IndexOf(Output, Separator) = 0 THEN None
             ELSE Some(SubSeq(Output, IndexOf(Output, Separator) + Len(Separator), Len(Output)))

\* The text before the first comma.
BeforeComma(s) == IF IndexOf(s, <<",">>) = 0 THEN s ELSE SubSeq(s, 1, IndexOf(s, <<",">>) - 1)

\* C8: for the Linux and the Windows playerctl adapter, an output whose parts
\* before and after the first " - " are both non-empty gives the record with
\* artist = the text before the first comma of the first part and title =
\* everything after the first separator with one trailing hyphen stripped,
\* both trimmed.
C8_CliParse ==
  (Parsed({"linux", "windows"}) /\ NonEmptyPart(FirstPart) /\ NonEmptyPart(Remainder)) =>
    proc.promise = Resolved(Some(Track(Trim(BeforeComma(FirstPart[1])),
                                       Trim(StripTrailingHyphen(Remainder[1])))))

\* The common part of C9: a tab title without " - " is rejected; one with a
\* separator gives a record whose title is the text before the first separator.
C9_TitleFirst ==
  /\ FirstPart = None => proc.promise.state = "rejected"
  /\ FirstPart # None =>
       /\ proc.promise.state = "resolved"
       /\ proc.promise.value # None
       /\ proc.promise.value[1].title = Trim(FirstPart[1])

\* C9 as stated: the tab title is read as TITLE - ARTIST, the artist being
\* the whole remainder after the first separator; a tab title without
\* separator is rejected.
C9_BrowserTitle ==
  Parsed({"macos"}) =>
    /\ C9_TitleFirst
    /\ FirstPart # None => proc.promise.value[1].artist = Trim(Remainder[1])

\* C9 amended: the tab title is read as TITLE - ARTIST, the artist being the
\* text between the first and the second " - " (the whole remainder when
\* there is no second one); a tab title without separator is rejected.
C9_BrowserTitleAmended ==
  Parsed({"macos"}) =>
    /\ C9_TitleFirst
    /\ FirstPart # None =>
         LET j == IndexOf(Remainder[1], Separator)
             second == IF j = 0 THEN Remainder[1] ELSE SubSeq(Remainder[1], 1, j - 1)
         IN proc.promise.value[1].artist = Trim(second)

\* A tab title with two separators was parsed.
C9_Witness ==
  /\ Parsed({"macos"})
  /\ Remainder # None
  /\ IndexOf(Remainder[1], Separator) > 0
  /\ proc.promise.state = "resolved"
  /\ Len(proc.promise.value[1].artist) > 0
  /\ Len(proc.promise.value[1].title) > 0

(* ------------------------------------------------------------------- C6 *)

C11_MetadataNeverFatal ==
  (now.pc = "done" /\ now.music # None) =>
    /\ now.state = "resolved"
    /\ now.status = 200
    /\ now.coverUrl # Undefined
    /\ now.failed # "none" => now.coverUrl = ""

(* ------------------------------------------------------------------ C12 *)

\* C12: while the session list keeps its value, across the session-changed
\* events and getCurrentMusic() calls that meet it, currentMusic is written at
\* most once and the "new track detected" notification is emitted at most
\* once; every hasMusicChanged call compares with the currentMusic stored
\* before the operation.
C12_DuplicateSuppression ==
  [][ /\ same'.writes <= 1
      /\ same'.notes <= 1
      /\ \A i \in DOMAIN last'.hmc : last'.hmc[i].prev = currentMusic ]_vars

(* ------------------------------------------------------------------ C13 *)

\* C13: isInitialized goes from false to true only in an operation whose
\* native initialization succeeded, and from true to false only in a stop()
\* whose destroy() returned; destroy() is called only on an initialized
\* monitor (one whose last successful initialization no stop() has undone);
\* stop() on an uninitialized monitor calls no destroy() and leaves the
\* monitor uninitialized.
C13_SubscriptionAlternates ==
  [][ /\ (~isInitialized /\ isInitialized') => (last'.inits = 1 /\ last'.subscribed)
      /\ (isInitialized /\ ~isInitialized') =>
           (last'.op = "stop" /\ last'.destroys = 1 /\ ~last'.threw)
      /\ last'.destroys > 0 => (isInitialized /\ last'.op = "stop")
      /\ (last'.op = "stop" /\ ~isInitialized) =>
           (last'.destroys = 0 /\ ~isInitialized') ]_vars

\* A stop() has torn down a subscription that a start() had made, and a
\* second stop() found nothing to tear down.
C13_Witness ==
  /\ last.op = "stop"
  /\ ~last.preInit
  /\ last.destroys = 0
  /\ ~isInitialized
  /\ currentMusic # None

(* ------------------------------------------------------------------ C14 *)

\* C14: an operation whose native initialization throws returns normally and
\* leaves isInitialized false, and a start() that met the exception leaves
\* currentMusic as it was; on a monitor that is not initialized, start(),
\* getCurrentMusic() and getCurrentSession() each attempt the native
\* initialization (again).
C14_StartFailure ==
  [][ /\ (last'.inits = 1 /\ ~last'.subscribed) =>
           /\ ~isInitialized'
           /\ ~last'.threw
           /\ last'.op = "start" => currentMusic' = currentMusic
      /\ (~isInitialized /\ last'.op \in {"start", "getCurrentMusic", "getCurrentSession"})
           => last'.inits = 1 ]_vars

\* A start() whose initialization threw is followed by a start() that
\* attempts it again and succeeds.
C14_Witness ==
  /\ last.op = "start"
  /\ prevStart = "fail"
  /\ last.inits = 1
  /\ last.subscribed
  /\ isInitialized

(* ------------------------------------------------------------------ C15 *)

\* C15: a process that a termination signal has ended has reached
\* process.exit(0) with the monitor's teardown complete (the monitor is no
\* longer initialized), also when destroy() threw.
C15_SignalTeardown ==
  exit # "none" => (exit = "exit 0" /\ ~isInitialized)

(* ------------------------------------------------------------------ C16 *)

\* C16: the pending promise of an adapter is eventually settled, whether its
\* command ends or not.
C16_EverySettles ==
  (proc.promise.state = "pending") ~> (proc.promise.state \in {"resolved", "rejected"})

(* ------------------------------------------------------------------ C17 *)

\* C17: within a getWindowsMusic() call, an external command is started only
\* by the continuation that has received nothing from the native adapter and
\* has started no command before (so at most one command of the call is
\* pending at any time); no command belongs to a call whose native adapter
\* returned a track.
C17_StrictPriority ==
  [][ /\ (proc.command # "running" /\ proc'.command = "running") =>
           /\ req.pc = "native"
           /\ req.native = None
           /\ ~req.cliStarted
           /\ req'.cliStarted
           /\ proc'.adapter = "windows"
      /\ req'.native # None => (proc'.adapter = "none" /\ ~req'.cliStarted) ]_vars

\* The command of the CLI adapter runs in a call whose native adapter gave
\* nothing, on a monitor that has a session without media.
C17_Witness ==
  /\ req.pc = "cli"
  /\ req.native = None
  /\ proc.command = "running"
  /\ HasSession
  /\ isInitialized

(* ------------------------------------------------------------------ C18 *)

\* C18: for the Linux and the Windows playerctl adapter, a command that ran
\* without error and printed nothing (but white space) resolves the promise
\* with null, and a command that failed to execute does not settle the
\* promise in that same way.
C18_NothingPlaying ==
  /\ (Parsed({"linux", "windows"}) /\ Len(Trim(stdout)) = 0) => proc.promise = Resolved(None)
  /\ (proc.adapter \in {"linux", "windows"} /\ proc.error) => proc.promise # Resolved(None)

(* ------------------------------------------------------------------ C19 *)

C20_OneMonitor ==
  /\ created <= 1
  /\ deezerMonitor = "monitor" <=> created = 1
  /\ last.op # "none" => (created = 1 /\ deezerMonitor = "monitor")

\* On a platform other than win32, a handler has made the monitor and a later
\* GET /deezer-music has used the same one.
C20_Witness ==
  /\ osPlatform = "linux"
  /\ created = 1
  /\ last.op = "getCurrentMusic"
  /\ last.preInit
  /\ last.inits = 0

(* ------------------------------------------------------------------ C21 *)

\* C21: at most one token request is issued in the life of the process, and
\* a getSpotifyToken() call made while a token is stored returns it without
\* issuing a request.
C21_TokenRequestedOnce ==
  /\ tokenRequests <= 1
  /\ \A i \in 1..MaxRequests :
       calls[i].sawToken => (calls[i].pc = "returned" /\ ~calls[i].requested)

====
